---- MODULE Spec2Model ----
(***************************************************************************)
(* urd: a Prometheus exporter for AWS Classic ELB metrics of Kubernetes    *)
(* LoadBalancer services (src/main.go).                                    *)
(*                                                                         *)
(* The model follows main.go: the scheduler loop of main, one collection   *)
(* cycle of collectMetrics (discovery, WaitGroup, one goroutine per        *)
(* (service, metric) pair), the metric fetcher getElbMetric, the name      *)
(* resolver elbNameFromElbDNS and the metric catalog with its Prometheus   *)
(* sinks.  Go strings that the code takes apart (hostnames, ELB names) are *)
(* sequences of one-character strings; float64 samples are integers.      *)
(* log.Fatal and an unrecovered panic both end the whole process.          *)
(***************************************************************************)
EXTENDS Integers, Sequences, FiniteSets, TLC

VARIABLES
    proc,       \* "running", or how the process ended: "fatal" (log.Fatal) / "panic"
    exitCause,  \* the statement that ended the process ("none" while running)
    pc,         \* position of the main goroutine in the for loop of main
    clock,      \* wall-clock time in seconds (time.Now())
    begin,      \* main: begin
    timediff,   \* main: timediff
    cycle,      \* number of collection cycles started so far
    catalog,    \* the package variable metrics
    world,      \* what the orchestrator answered to this cycle's discovery
                \* (Nil until getAllServices has run in the cycle)
    services,   \* collectMetrics: services
    wg,         \* collectMetrics: the WaitGroup counter
    spawned,    \* collectMetrics: go statements executed by the two for loops
    tasks,      \* the goroutines started by collectMetrics in this cycle, in spawn order
    registry,   \* the Prometheus registry: exported series -> value
    regBegin    \* the registry as it was when the current cycle began

vars == <<proc, exitCause, pc, clock, begin, timediff, cycle,
          catalog, world, services, wg, spawned, tasks, registry, regBegin>>

\* A Go pointer (or a slice that may be nil) is a sequence of at most one
\* element: Nil, or Ptr(v) with the value Deref gives back.
Nil == <<>>
Ptr(v) == <<v>>
Deref(p) == p[1]

(***************************************************************************)
(* Bounds of the model.                                                    *)
(***************************************************************************)
MaxCycles == 2      \* collection cycles per run
MaxTasks == 2       \* goroutines per cycle: Len(services) * Len(catalog)

\* Durations a collection cycle may take, in seconds (below, at and above the period).
Durations == {20, 60, 90}

\* Values a backend datapoint may carry.
Values == {0, 42}

(***************************************************************************)
(* Strings as sequences of characters.                                     *)
(***************************************************************************)
Digit == {"0", "1", "2", "3", "4", "5", "6", "7", "8", "9"}

InternalPrefix == <<"i", "n", "t", "e", "r", "n", "a", "l", "-">>

\* strings.HasPrefix
HasPrefix(s, prefix) ==
    /\ Len(s) >= Len(prefix)
    /\ SubSeq(s, 1, Len(prefix)) = prefix

\* s without its leading characters that are in cutset.
RECURSIVE TrimLeft(_, _)
TrimLeft(s, cutset) ==
    IF s # <<>> /\ Head(s) \in cutset THEN TrimLeft(Tail(s), cutset) ELSE s

\* Mutant: strings.TrimLeft is called in place of strings.TrimPrefix; it takes
\* its second argument for a set of characters.
TrimPrefix_CutSet(s, prefix) == TrimLeft(s, {prefix[i] : i \in DOMAIN prefix})

\* strings.TrimPrefix: s without the leading prefix, once; s itself if it has none.
TrimPrefix(s, prefix) ==
    IF HasPrefix(s, prefix) THEN SubSeq(s, Len(prefix) + 1, Len(s)) ELSE s

\* The non-capturing group (?:-[0-9]{6}) matches s at position p.
DashDigitsAt(s, p) ==
    /\ p >= 1
    /\ p + 6 <= Len(s)
    /\ s[p] = "-"
    /\ \A k \in 1..6 : s[p + k] \in Digit

\* "(.*)(?:-[0-9]{6})" matches s from position i with the group (.*) = s[i..p-1]:
\* "." matches every character but a newline.
MatchAt(s, i, p) ==
    /\ i >= 1
    /\ i <= p
    /\ DashDigitsAt(s, p)
    /\ \A k \in i..(p - 1) : s[k] # "\n"

\* re.FindStringSubmatch(elbDNS) as the regexp engine searches: the leftmost
\* start i first, and for it the greedy (.*) from the longest group down (the
\* group ends before q); the nil slice when there is no match, else
\* <<whole match, group 1>> (Go's indexes 0 and 1 are 1 and 2 here).
RECURSIVE Search(_, _, _)
Search(s, i, q) ==
    IF i > Len(s) THEN Nil
    ELSE IF q < i THEN Search(s, i + 1, Len(s))
    ELSE IF MatchAt(s, i, q) THEN <<SubSeq(s, i, q + 6), SubSeq(s, i, q - 1)>>
    ELSE Search(s, i, q - 1)

FindStringSubmatch(s) == Search(s, 1, Len(s))

\* elbNameFromElbDNS: the index [1] into the result of FindStringSubmatch is
\* out of range (panic) when there was no match; else the ELB name.
elbNameFromElbDNS(elbDNS) ==
    LET m == FindStringSubmatch(elbDNS)
    IN  IF Len(m) < 2
        THEN [panic |-> TRUE, name |-> <<>>]
        ELSE [panic |-> FALSE, name |-> TrimPrefix(m[2], InternalPrefix)]

(***************************************************************************)
(* The metric catalog (var metrics) and the Prometheus vectors of init().  *)
(* An entry's closure is given by the vector it writes (vec), the status   *)
(* label it passes first ("" when the vector has no status label) and the  *)
(* operation it calls on the series.                                       *)
(***************************************************************************)
Entry(name, stat, vec, status, op) ==
    [MetricName |-> name, Statistic |-> stat, vec |-> vec, status |-> status, op |-> op]

metrics == <<
    Entry("HTTPCode_Backend_2XX", "Sum", "httpRequestsTotal", "2XX", "Add"),
    Entry("HTTPCode_Backend_3XX", "Sum", "httpRequestsTotal", "3XX", "Add"),
    Entry("HTTPCode_Backend_4XX", "Sum", "httpRequestsTotal", "4XX", "Add"),
    Entry("HTTPCode_Backend_5XX", "Sum", "httpRequestsTotal", "5XX", "Add"),
    Entry("HTTPCode_ELB_4XX", "Sum", "httpRequestsTotal", "ELB_4XX", "Add"),
    Entry("HTTPCode_ELB_5XX", "Sum", "httpRequestsTotal", "ELB_5XX", "Add"),
    Entry("BackendConnectionErrors", "Sum", "backendConnectionsErrors", "", "Add"),
    Entry("HealthyHostCount", "Average", "healthyHostCount", "", "Set"),
    Entry("Latency", "Average", "elbLatency", "", "Observe"),
    Entry("RequestCount", "Sum", "requestCount", "", "Add"),
    Entry("SpilloverCount", "Sum", "spilloverCount", "", "Add"),
    Entry("SurgeQueueLength", "Maximum", "surgeQueueLength", "", "Add"),
    Entry("UnHealthyHostCount", "Average", "unhealthyHostCount", "", "Set") >>

\* The kind of each vector created in init().
VecKind(vec) ==
    CASE vec \in {"healthyHostCount", "unhealthyHostCount"} -> "gauge"
      [] vec = "elbLatency" -> "histogram"
      [] OTHER -> "counter"

\* The catalogs a run may use: windows of metrics of at most MaxTasks entries,
\* starting at the first counter with a status label, at the first gauge (the
\* histogram and a counter without status label follow it) and at the counter
\* fed by a Maximum.
CatalogStarts == {1, 8, 12}

Catalogs ==
    {SubSeq(metrics, w[1], w[2]) :
        w \in {v \in CatalogStarts \X (0..Len(metrics)) :
                  v[2] >= v[1] - 1 /\ v[2] - v[1] + 1 <= MaxTasks}}

\* Mutant: every sink of httpRequestsTotal passes the status "2XX".
Series_Status2XX(m, elbName, svcName, ns) ==
    IF m.status = "" THEN <<m.vec, <<elbName, svcName, ns>>>>
    ELSE <<m.vec, <<"2XX", elbName, svcName, ns>>>>

\* WithLabelValues(...): the series of a vector with these label values.
Series(m, elbName, svcName, ns) ==
    IF m.status = "" THEN <<m.vec, <<elbName, svcName, ns>>>>
    ELSE <<m.vec, <<m.status, elbName, svcName, ns>>>>

\* A series is created on its first WithLabelValues: a counter or gauge at 0,
\* a histogram with no observation.
ZeroOf(vec) ==
    IF VecKind(vec) = "histogram" THEN [count |-> 0, sum |-> 0] ELSE 0

Current(reg, key) == IF key \in DOMAIN reg THEN reg[key] ELSE ZeroOf(key[1])

Put(reg, key, val) ==
    [k \in DOMAIN reg \cup {key} |-> IF k = key THEN val ELSE reg[k]]

\* Mutant: the counter sinks call Inc() and drop the value.
Apply_Inc(op, old, value) ==
    CASE op = "Add" -> old + 1
      [] op = "Set" -> value
      [] op = "Observe" -> [count |-> old.count + 1, sum |-> old.sum + value]

\* Mutant: the counter sinks overwrite the series with the value.
Apply_Overwrite(op, old, value) ==
    CASE op = "Add" -> value
      [] op = "Set" -> value
      [] op = "Observe" -> [count |-> old.count + 1, sum |-> old.sum + value]

\* Mutant: the gauge sinks add the value to the series.
Apply_Accumulate(op, old, value) ==
    CASE op = "Add" -> old + value
      [] op = "Set" -> old + value
      [] op = "Observe" -> [count |-> old.count + 1, sum |-> old.sum + value]

\* Counter.Add(v): panics for v < 0, else adds.
\* Gauge.Set(v): overwrites.  Histogram.Observe(v): one more observation.
Apply(op, old, value) ==
    CASE op = "Add" -> old + value
      [] op = "Set" -> value
      [] op = "Observe" -> [count |-> old.count + 1, sum |-> old.sum + value]

\* vec.WithLabelValues(...) on the registry reg: the series is created, at
\* zero, if the vector does not have it yet; the registry is as it was if it has.
GetOrCreate(reg, key) == Put(reg, key, Current(reg, key))

\* m.Prometheus(elbName, svcName, ns, value) on the registry reg: the series is
\* got or created by WithLabelValues, then Add, Set or Observe is called on it.
\* A panic of Counter.Add leaves the series as WithLabelValues gave it.
Prometheus(m, reg, elbName, svcName, ns, value) ==
    LET key == Series(m, elbName, svcName, ns)
        got == GetOrCreate(reg, key)
    IN  IF m.op = "Add" /\ value < 0
        THEN [panic |-> TRUE, reg |-> got]
        ELSE [panic |-> FALSE, reg |-> Put(got, key, Apply(m.op, got[key], value))]

(***************************************************************************)
(* The metrics backend (CloudWatch GetMetricStatistics) and getElbMetric.  *)
(***************************************************************************)
Statistics == {"Sum", "Average", "Maximum", "Minimum"}

\* A datapoint carries the statistics that were requested and nil for the others.
Datapoint(stat, v) == [s \in Statistics |-> IF s = stat THEN Ptr(v) ELSE Nil]

\* The kind of an answer of the backend.
RespKind(resp) ==
    IF resp.err THEN "error"
    ELSE IF resp.hang THEN "hang"
    ELSE IF Len(resp.Datapoints) = 0 THEN "nodata" ELSE "datapoint"

\* The requested statistic of the first datapoint of an answer, Nil without one.
SampleOf(resp, stat) ==
    IF Len(resp.Datapoints) = 0 THEN Nil ELSE resp.Datapoints[1][stat]

\* What one backend call for the statistic stat may answer.  "hang" is the call
\* that never returns.
Responses(stat) ==
    {[err |-> TRUE, hang |-> FALSE, Datapoints |-> <<>>],
     [err |-> FALSE, hang |-> TRUE, Datapoints |-> <<>>],
     [err |-> FALSE, hang |-> FALSE, Datapoints |-> <<>>]} \cup
    {[err |-> FALSE, hang |-> FALSE, Datapoints |-> <<Datapoint(stat, v)>>] : v \in Values}

\* Mutant: a failed backend call is taken for a call without datapoints.
getElbMetric_ErrorAsZero(resp, statisticType) ==
    IF resp.err \/ Len(resp.Datapoints) = 0 THEN [fatal |-> FALSE, value |-> Ptr(0)]
    ELSE IF statisticType \in Statistics
         THEN [fatal |-> FALSE, value |-> resp.Datapoints[1][statisticType]]
         ELSE [fatal |-> FALSE, value |-> Nil]

\* Mutant: without a datapoint the value pointer is left nil.
getElbMetric_NilOnNoData(resp, statisticType) ==
    IF resp.err THEN [fatal |-> TRUE, value |-> Nil]
    ELSE IF Len(resp.Datapoints) = 0 THEN [fatal |-> FALSE, value |-> Nil]
    ELSE IF statisticType \in Statistics
         THEN [fatal |-> FALSE, value |-> resp.Datapoints[1][statisticType]]
         ELSE [fatal |-> FALSE, value |-> Nil]

\* getElbMetric after the backend answered resp: log.Fatal on an error, a
\* pointer to 0 for no datapoint, else the requested field of the first datapoint
\* (the nil pointer if statisticType is none of the four).
getElbMetric(resp, statisticType) ==
    IF resp.err THEN [fatal |-> TRUE, value |-> Nil]
    ELSE IF Len(resp.Datapoints) = 0 THEN [fatal |-> FALSE, value |-> Ptr(0)]
    ELSE IF statisticType \in Statistics
         THEN [fatal |-> FALSE, value |-> resp.Datapoints[1][statisticType]]
         ELSE [fatal |-> FALSE, value |-> Nil]

(***************************************************************************)
(* The orchestrator (Kubernetes API) and getAllServices.                   *)
(***************************************************************************)
Chars(a, b, c) == a \o b \o c

HostInternal == Chars(InternalPrefix, <<"a", "b">>, <<"-", "1", "2", "3", "4", "5", "6", "7", ".", "e">>)
HostPublic == Chars(<<"c", "d">>, <<"-", "6", "5", "4", "3", "2", "1">>, <<".", "e">>)
HostMalformed == Chars(<<"g", "h">>, <<"-", "1", "2", "3", "4", "5">>, <<".", "e">>)

\* The hostname of the comment of elbNameFromElbDNS, in its parts.
ExampleId ==
    <<"a", "8", "2", "8", "0", "2", "1", "3", "c", "6", "1", "1", "d", "1", "1", "4", "o", "7", "3", "4", "0", "o", "n", "c", "0", "d", "3", "4", "2", "5", "2">>
ExampleSuffix == <<"1", "5", "2", "3", "3", "7", "6", "8", "9">>
ExampleDomain ==
    <<".", "u", "s", "-", "e", "a", "s", "t", "-", "1", ".", "e", "l", "b", ".", "a", "m", "a", "z", "o", "n", "a", "w", "s", ".", "c", "o", "m">>

\* Hostnames of the pattern the cloud provider issues, in their parts: an
\* optional "internal-", an identifier without dash, a dash and a numeric
\* suffix of six digits or more, a domain suffix.
HostParts ==
    [prefix : {<<>>, InternalPrefix},
     id     : {<<"a", "b">>, <<"i", "n", "t", "e", "r", "n", "a", "l">>, ExampleId},
     suffix : {<<"1", "2", "3", "4", "5", "6">>, ExampleSuffix},
     domain : {<<".", "e">>, ExampleDomain}]

HostOf(h) == h.prefix \o h.id \o <<"-">> \o h.suffix \o h.domain

\* Hostnames with two groups of a dash and six digits.
HostTwoGroups ==
    Chars(<<"e", "f">>, <<"-", "1", "1", "1", "1", "1", "1">>,
          <<"-", "2", "2", "2", "2", "2", "2", ".", "e">>)
HostInternalTwoGroups == InternalPrefix \o HostTwoGroups

\* The hostnames a load balancer ingress may carry.
Hostnames ==
    {HostOf(h) : h \in HostParts}
        \cup {HostInternal, HostPublic, HostMalformed, HostTwoGroups, HostInternalTwoGroups}

Svc(ns, name, type, ingress) ==
    [Namespace |-> ns, Name |-> name, Type |-> type, Ingress |-> ingress]

Ing(host) == <<[Hostname |-> Ptr(host)]>>
IngNoHostname == <<[Hostname |-> Nil]>>

SvcWeb == Svc("default", "web", "LoadBalancer", Ing(HostInternal))
SvcApi == Svc("prod", "api", "LoadBalancer", Ing(HostPublic))
SvcBad == Svc("prod", "bad", "LoadBalancer", Ing(HostMalformed))
SvcPending == Svc("prod", "pending", "LoadBalancer", <<>>)
SvcNoHost == Svc("prod", "nohost", "LoadBalancer", IngNoHostname)
SvcDb == Svc("default", "db", "ClusterIP", <<>>)
SvcPort == Svc("prod", "port", "NodePort", <<>>)

Ns(name, err, items) == [Name |-> name, listErr |-> err, Items |-> items]

World(clientErr, nsErr, namespaces) ==
    [clientErr |-> clientErr, nsErr |-> nsErr, Namespaces |-> namespaces]

\* What the orchestrator may hold, or fail with, when a cycle queries it.
Worlds ==
    {World(TRUE, FALSE, <<>>),
     World(FALSE, TRUE, <<>>),
     World(FALSE, FALSE, <<>>),
     World(FALSE, FALSE, <<Ns("default", FALSE, <<SvcDb>>)>>),
     World(FALSE, FALSE, <<Ns("default", FALSE, <<SvcDb, SvcWeb>>)>>),
     World(FALSE, FALSE, <<Ns("default", FALSE, <<SvcWeb, SvcDb>>),
                           Ns("prod", TRUE, <<>>)>>),
     World(FALSE, FALSE, <<Ns("default", FALSE, <<SvcWeb, SvcDb>>),
                           Ns("prod", FALSE, <<SvcPort, SvcApi>>)>>),
     World(FALSE, FALSE, <<Ns("default", FALSE, <<SvcWeb>>),
                           Ns("prod", FALSE, <<SvcBad>>)>>),
     World(FALSE, FALSE, <<Ns("default", FALSE, <<SvcWeb>>),
                           Ns("prod", FALSE, <<SvcPending>>)>>),
     World(FALSE, FALSE, <<Ns("default", FALSE, <<SvcWeb>>),
                           Ns("prod", FALSE, <<SvcNoHost>>)>>)}

\* Mutant: the filter keeps every service that is not a ClusterIP service.
RECURSIVE FilterLoadBalancer_NotClusterIP(_)
FilterLoadBalancer_NotClusterIP(items) ==
    IF items = <<>> THEN <<>>
    ELSE (IF Head(items).Type # "ClusterIP" THEN <<Head(items)>> ELSE <<>>)
         \o FilterLoadBalancer_NotClusterIP(Tail(items))

\* The inner loop of getAllServices: the LoadBalancer services of items, in order.
RECURSIVE FilterLoadBalancer(_)
FilterLoadBalancer(items) ==
    IF items = <<>> THEN <<>>
    ELSE (IF Head(items).Type = "LoadBalancer" THEN <<Head(items)>> ELSE <<>>)
         \o FilterLoadBalancer(Tail(items))

\* Mutant: a namespace whose ListServices fails is passed over.
RECURSIVE ListAll_SkipFailed(_, _, _)
ListAll_SkipFailed(namespaces, i, acc) ==
    IF i > Len(namespaces) THEN [exit |-> "none", cause |-> "none", services |-> acc]
    ELSE IF namespaces[i].listErr
         THEN ListAll_SkipFailed(namespaces, i + 1, acc)
         ELSE ListAll_SkipFailed(namespaces, i + 1,
                                 acc \o FilterLoadBalancer(namespaces[i].Items))

\* The outer loop of getAllServices over the namespaces from position i on, with
\* the services collected so far: log.Fatal at the first namespace whose
\* ListServices fails.
RECURSIVE ListAll(_, _, _)
ListAll(namespaces, i, acc) ==
    IF i > Len(namespaces) THEN [exit |-> "none", cause |-> "none", services |-> acc]
    ELSE IF namespaces[i].listErr
         THEN [exit |-> "fatal", cause |-> "ListServices", services |-> <<>>]
         ELSE ListAll(namespaces, i + 1, acc \o FilterLoadBalancer(namespaces[i].Items))

\* getAllServices: log.Fatal when loadClient fails; the error of ListNamespaces
\* is not looked at and the nil list it comes with is dereferenced (panic).
getAllServices(k8s) ==
    IF k8s.clientErr
    THEN [exit |-> "fatal", cause |-> "loadClient", services |-> <<>>]
    ELSE IF k8s.nsErr
         THEN [exit |-> "panic", cause |-> "ListNamespaces", services |-> <<>>]
         ELSE ListAll(k8s.Namespaces, 1, <<>>)

(***************************************************************************)
(* The scheduler loop of main and collectMetrics.                          *)
(***************************************************************************)
Minute == 60

\* Mutant: the time the cycle took is not taken off the period.
SleepArg_FullPeriod(td) == Minute

\* The argument of time.Sleep in main.
SleepArg(td) == Minute - td

\* Mutant: a negative duration is not clamped and turns the clock back.
TimeSleep_Signed(d) == d

\* time.Sleep(d) returns at once for d <= 0, else after d.
TimeSleep(d) == IF d <= 0 THEN 0 ELSE d

\* Mutant: the WaitGroup counts one more than the (service, metric) pairs.
AddDelta_OneTooMany(svcs, ms) == Len(svcs) * Len(ms) + 1

\* Mutant: the WaitGroup counts the services, not the (service, metric) pairs.
AddDelta_ServicesOnly(svcs, ms) == Len(svcs)

\* The argument of wg.Add.
AddDelta(svcs, ms) == Len(svcs) * Len(ms)

\* Mutant: the inner loop passes the first metric at every iteration.
LoopPair_FirstMetric(n, k) == <<(n \div k) + 1, 1>>

\* The pair the two nested for loops reach with their n-th go statement
\* (n from 0): services outside, metrics inside.
LoopPair(n, k) == <<(n \div k) + 1, (n % k) + 1>>

\* Number of go statements the two for loops execute.
LoopCount(svcs, ms) == Len(svcs) * Len(ms)

\* A goroutine running getMetric(m, s): the cycle and the loop positions it was
\* started at, its arguments, where it stands (st: spawned, resolved, fetched,
\* labelled once WithLabelValues has returned, written, done; or hung, failed,
\* panicked), its local elbName, the
\* number of backend calls it has made, what the backend answered (resp: the
\* kind of answer; sample: the requested statistic of its first datapoint, Nil
\* if it has none) and the value it got from getElbMetric.
Task(c, si, mi, s, m) ==
    [cycle |-> c, si |-> si, mi |-> mi, s |-> s, m |-> m,
     st |-> "spawned", elbName |-> <<>>, calls |-> 0, resp |-> "none",
     sample |-> Nil, value |-> 0]

\* The first argument of getMetric's call of m.Prometheus:
\* elbNameFromElbDNS(*s.Status.LoadBalancer.Ingress[0].Hostname).
ResolveElbName(s) ==
    IF Len(s.Ingress) = 0
    THEN [panic |-> TRUE, cause |-> "Ingress[0]", name |-> <<>>]
    ELSE IF s.Ingress[1].Hostname = Nil
         THEN [panic |-> TRUE, cause |-> "*Hostname", name |-> <<>>]
         ELSE LET r == elbNameFromElbDNS(Deref(s.Ingress[1].Hostname))
              IN  [panic |-> r.panic,
                   cause |-> IF r.panic THEN "FindStringSubmatch[1]" ELSE "none",
                   name |-> r.name]

Running == proc = "running"

InFlight == pc \in {"collect", "spawn", "wait"}

\* The goroutines of the current cycle, and those among them that have called
\* their sink.
Mine == {t \in 1..Len(tasks) : tasks[t].cycle = cycle}
Written == {t \in Mine : tasks[t].st \in {"written", "done"}}

Unfinished(t) == t.st # "done"

Exit(how, cause) ==
    /\ proc' = how
    /\ exitCause' = cause

Init ==
    /\ proc = "running"
    /\ exitCause = "none"
    /\ pc = "loop"
    /\ clock = 0
    /\ begin = 0
    /\ timediff = 0
    /\ cycle = 0
    /\ catalog \in Catalogs
    /\ world = Nil
    /\ services = <<>>
    /\ wg = 0
    /\ spawned = 0
    /\ tasks = <<>>
    /\ registry = <<>>
    /\ regBegin = <<>>

\* main, lines 221-222: a cycle begins, begin := time.Now().
Begin ==
    /\ Running
    /\ pc = "loop"
    /\ cycle < MaxCycles
    /\ cycle' = cycle + 1
    /\ begin' = clock
    /\ timediff' = 0
    /\ pc' = "collect"
    /\ world' = Nil
    /\ services' = <<>>
    /\ wg' = 0
    /\ spawned' = 0
    /\ tasks' = SelectSeq(tasks, Unfinished)
    /\ regBegin' = registry
    /\ UNCHANGED <<proc, exitCause, clock, catalog, registry>>

\* collectMetrics, lines 195-198: getAllServices() and wg.Add.
Discover ==
    /\ Running
    /\ pc = "collect"
    /\ \E w \in Worlds :
        LET r == getAllServices(w)
        IN  IF r.exit # "none"
            THEN /\ Exit(r.exit, r.cause)
                 /\ world' = Ptr(w)
                 /\ UNCHANGED <<pc, services, wg>>
            ELSE /\ LoopCount(r.services, catalog) <= MaxTasks
                 /\ world' = Ptr(w)
                 /\ services' = r.services
                 /\ wg' = AddDelta(r.services, catalog)
                 /\ pc' = IF LoopCount(r.services, catalog) = 0 THEN "wait" ELSE "spawn"
                 /\ UNCHANGED <<proc, exitCause>>
    /\ UNCHANGED <<clock, begin, timediff, cycle, catalog,
                   spawned, tasks, registry, regBegin>>

\* collectMetrics, lines 206-210: one go statement of the two for loops.
Spawn ==
    /\ Running
    /\ pc = "spawn"
    /\ LET p == LoopPair(spawned, Len(catalog))
       IN  tasks' = Append(tasks, Task(cycle, p[1], p[2], services[p[1]], catalog[p[2]]))
    /\ spawned' = spawned + 1
    /\ pc' = IF spawned + 1 = LoopCount(services, catalog) THEN "wait" ELSE "spawn"
    /\ UNCHANGED <<proc, exitCause, clock, begin, timediff, cycle, catalog,
                   world, services, wg, registry, regBegin>>

\* getMetric, line 201: the goroutine resolves the ELB name of its service.
Resolve(t) ==
    /\ Running
    /\ tasks[t].st = "spawned"
    /\ LET r == ResolveElbName(tasks[t].s)
       IN  IF r.panic
           THEN /\ Exit("panic", r.cause)
                /\ tasks' = [tasks EXCEPT ![t].st = "panicked"]
           ELSE /\ tasks' = [tasks EXCEPT ![t].st = "resolved", ![t].elbName = r.name]
                /\ UNCHANGED <<proc, exitCause>>
    /\ UNCHANGED <<pc, clock, begin, timediff, cycle, catalog,
                   world, services, wg, spawned, registry, regBegin>>

\* getMetric, line 202: the call of getElbMetric and the dereference of its result.
Fetch(t) ==
    /\ Running
    /\ tasks[t].st = "resolved"
    /\ \E resp \in Responses(tasks[t].m.Statistic) :
        IF resp.hang
        THEN /\ tasks' = [tasks EXCEPT ![t].st = "hung", ![t].resp = "hang",
                                       ![t].calls = @ + 1]
             /\ UNCHANGED <<proc, exitCause>>
        ELSE LET r == getElbMetric(resp, tasks[t].m.Statistic)
             IN  IF r.fatal
                 THEN /\ Exit("fatal", "GetMetricStatistics")
                      /\ tasks' = [tasks EXCEPT ![t].st = "failed",
                                                ![t].resp = RespKind(resp),
                                                ![t].calls = @ + 1]
                 ELSE IF r.value = Nil
                      THEN /\ Exit("panic", "*getElbMetric")
                           /\ tasks' = [tasks EXCEPT ![t].st = "panicked",
                                                     ![t].resp = RespKind(resp),
                                                     ![t].calls = @ + 1]
                      ELSE /\ tasks' = [tasks EXCEPT ![t].st = "fetched",
                                                     ![t].resp = RespKind(resp),
                                                     ![t].sample =
                                                         SampleOf(resp, tasks[t].m.Statistic),
                                                     ![t].calls = @ + 1,
                                                     ![t].value = Deref(r.value)]
                           /\ UNCHANGED <<proc, exitCause>>
    /\ UNCHANGED <<pc, clock, begin, timediff, cycle, catalog,
                   world, services, wg, spawned, registry, regBegin>>

\* getMetric, line 202, and the closure of the catalog entry: the sink
\* m.Prometheus is entered and its first call, vec.WithLabelValues(...), gets
\* or creates the series under the vector's lock and releases the lock.
WithLabelValues(t) ==
    /\ Running
    /\ tasks[t].st = "fetched"
    /\ registry' = GetOrCreate(registry,
                               Series(tasks[t].m, tasks[t].elbName,
                                      tasks[t].s.Name, tasks[t].s.Namespace))
    /\ tasks' = [tasks EXCEPT ![t].st = "labelled"]
    /\ UNCHANGED <<proc, exitCause, pc, clock, begin, timediff, cycle, catalog,
                   world, services, wg, spawned, regBegin>>

\* The closure's second call, Add, Set or Observe on the series: with the
\* series there, m.Prometheus leaves the registry as this call leaves it.
Sink(t) ==
    /\ Running
    /\ tasks[t].st = "labelled"
    /\ LET r == Prometheus(tasks[t].m, registry, tasks[t].elbName,
                           tasks[t].s.Name, tasks[t].s.Namespace, tasks[t].value)
       IN  IF r.panic
           THEN /\ Exit("panic", "Counter.Add")
                /\ tasks' = [tasks EXCEPT ![t].st = "panicked"]
                /\ registry' = r.reg
           ELSE /\ registry' = r.reg
                /\ tasks' = [tasks EXCEPT ![t].st = "written"]
                /\ UNCHANGED <<proc, exitCause>>
    /\ UNCHANGED <<pc, clock, begin, timediff, cycle, catalog,
                   world, services, wg, spawned, regBegin>>

\* getMetric, line 203: wg.Done() (a counter below zero panics).  A goroutine
\* left over from an earlier call of collectMetrics has that call's WaitGroup.
Done(t) ==
    /\ Running
    /\ tasks[t].st = "written"
    /\ IF tasks[t].cycle # cycle
       THEN /\ tasks' = [tasks EXCEPT ![t].st = "done"]
            /\ UNCHANGED <<proc, exitCause, wg>>
       ELSE IF wg = 0
            THEN /\ Exit("panic", "wg.Done")
                 /\ tasks' = [tasks EXCEPT ![t].st = "panicked"]
                 /\ UNCHANGED wg
            ELSE /\ wg' = wg - 1
                 /\ tasks' = [tasks EXCEPT ![t].st = "done"]
                 /\ UNCHANGED <<proc, exitCause>>
    /\ UNCHANGED <<pc, clock, begin, timediff, cycle, catalog,
                   world, services, spawned, registry, regBegin>>

\* collectMetrics, line 212, and main, lines 224-225: wg.Wait() returns once the
\* counter is zero; the cycle has then taken some time d.
Wait ==
    /\ Running
    /\ pc = "wait"
    /\ wg = 0
    /\ \E d \in Durations :
        /\ clock' = clock + d
        /\ timediff' = clock' - begin
    /\ pc' = "sleep"
    /\ UNCHANGED <<proc, exitCause, begin, cycle, catalog,
                   world, services, wg, spawned, tasks, registry, regBegin>>

\* main, lines 226-227: time.Sleep(time.Minute - timediff).
Sleep ==
    /\ Running
    /\ pc = "sleep"
    /\ clock' = clock + TimeSleep(SleepArg(timediff))
    /\ pc' = "loop"
    /\ UNCHANGED <<proc, exitCause, begin, timediff, cycle, catalog,
                   world, services, wg, spawned, tasks, registry, regBegin>>

\* What GET /metrics is served: promhttp.Handler() gathers the registry as it
\* is at that moment.
ScrapeResponse == registry

\* The response holds the samples of some, but not all, tasks of the cycle in flight.
PartialResponse ==
    /\ InFlight
    /\ Written # {}
    /\ Cardinality(Written) < LoopCount(services, catalog)

\* main, lines 216-217: the HTTP server goroutine serves a GET /metrics.  It
\* takes no lock of collectMetrics and changes nothing the collection reads.
Scrape ==
    /\ Running
    /\ UNCHANGED vars

Next ==
    \/ Begin
    \/ Discover
    \/ Spawn
    \/ \E t \in 1..Len(tasks) : Resolve(t)
    \/ \E t \in 1..Len(tasks) : Fetch(t)
    \/ \E t \in 1..Len(tasks) : WithLabelValues(t)
    \/ \E t \in 1..Len(tasks) : Sink(t)
    \/ \E t \in 1..Len(tasks) : Done(t)
    \/ Wait
    \/ Sleep
    \/ Scrape

Spec == Init /\ [][Next]_vars

\* The steps of the goroutine main.
MainStep == Begin \/ Discover \/ Spawn \/ Wait \/ Sleep

\* The steps of the t-th goroutine getMetric.
TaskStep(t) ==
    /\ t <= Len(tasks)
    /\ (Resolve(t) \/ Fetch(t) \/ WithLabelValues(t) \/ Sink(t) \/ Done(t))

\* The Go scheduler runs every goroutine that can run: main and each getMetric
\* goroutine take the step they are ready for.
FairSpec ==
    /\ Spec
    /\ WF_vars(MainStep)
    /\ \A t \in 1..MaxTasks : WF_vars(TaskStep(t))

(***************************************************************************)
(* One goroutine getMetric(m, s) on its own: any catalog entry, a service   *)
(* with any of the hostnames, started by a cycle of one service and one     *)
(* entry. Its steps are those of the scheduler's tasks.                     *)
(***************************************************************************)
GetMetricInit ==
    /\ proc = "running"
    /\ exitCause = "none"
    /\ pc = "wait"
    /\ clock = 0
    /\ begin = 0
    /\ timediff = 0
    /\ cycle = 1
    /\ wg = 1
    /\ spawned = 1
    /\ registry = <<>>
    /\ regBegin = <<>>
    /\ \E i \in 1..Len(metrics), host \in Hostnames :
          LET s == Svc("default", "web", "LoadBalancer", Ing(host))
          IN  /\ catalog = <<metrics[i]>>
              /\ world = Ptr(World(FALSE, FALSE, <<Ns("default", FALSE, <<s>>)>>))
              /\ services = <<s>>
              /\ tasks = <<Task(1, 1, 1, s, metrics[i])>>

GetMetricNext ==
    \/ \E t \in 1..Len(tasks) : Resolve(t)
    \/ \E t \in 1..Len(tasks) : Fetch(t)
    \/ \E t \in 1..Len(tasks) : WithLabelValues(t)
    \/ \E t \in 1..Len(tasks) : Sink(t)
    \/ \E t \in 1..Len(tasks) : Done(t)

GetMetricSpec == GetMetricInit /\ [][GetMetricNext]_vars

(***************************************************************************)
(* Properties.                                                             *)
(***************************************************************************)
Pairs == (1..Len(services)) \X (1..Len(catalog))

\* The goroutines of the current cycle started for the pair p.
TasksOf(p) == {t \in Mine : tasks[t].si = p[1] /\ tasks[t].mi = p[2]}

\* The two for loops of collectMetrics have run to their end in this cycle.
AllSpawned == pc \in {"wait", "sleep"} \/ (pc = "loop" /\ cycle >= 1)

\* collectMetrics has returned in this cycle.
Returned == pc = "sleep" \/ (pc = "loop" /\ cycle >= 1)

MaxOf(a, b) == IF a >= b THEN a ELSE b

\* C1: a cycle over S services and K catalog entries starts exactly S*K tasks,
\* one for each (service, metric) pair and none twice; a task calls the
\* backend at most once (no retry) and exactly once in a cycle that returns;
\* with S = 0 nothing is started and wg.Wait() can return at once.
C1_OneTaskPerPair ==
    /\ Cardinality(Mine) = spawned
    /\ spawned <= Len(services) * Len(catalog)
    /\ \A p \in Pairs : Cardinality(TasksOf(p)) <= 1
    /\ \A t \in Mine : tasks[t].calls <= 1
    /\ AllSpawned =>
          /\ Cardinality(Mine) = Len(services) * Len(catalog)
          /\ \A p \in Pairs :
                /\ Cardinality(TasksOf(p)) = 1
                /\ \A t \in TasksOf(p) : /\ tasks[t].s = services[p[1]]
                                         /\ tasks[t].m = catalog[p[2]]
    /\ Returned => \A t \in Mine : tasks[t].calls = 1
    /\ (pc = "wait" /\ Len(services) = 0) => (Mine = {} /\ wg = 0)

\* C1 witness: a cycle over two services and one metric has returned.
C1_Witness ==
    /\ pc = "sleep"
    /\ Len(services) = 2
    /\ Len(catalog) = 1
    /\ Cardinality(Mine) = 2

\* C2: collectMetrics returns only after every task it started has fetched,
\* called its sink and signalled wg.Done() once (the counter is the number of
\* tasks that have not signalled yet); a task whose backend call never returns
\* keeps its cycle from completing, and no later cycle starts.
C2_ReturnsAfterAllDone ==
    /\ Returned =>
          /\ Cardinality(Mine) = Len(services) * Len(catalog)
          /\ wg = 0
          /\ \A t \in Mine : /\ tasks[t].st = "done"
                             /\ tasks[t].calls = 1
                             /\ tasks[t].resp \in {"nodata", "datapoint"}
    /\ pc \in {"spawn", "wait"} =>
          wg = Len(services) * Len(catalog)
                 - Cardinality({t \in Mine : tasks[t].st = "done"})
    /\ \A t \in 1..Len(tasks) :
          tasks[t].st = "hung" => (tasks[t].cycle = cycle /\ pc \in {"spawn", "wait"})

\* C2 witness: one task hangs in its backend call while the other task of the
\* cycle is done; main is blocked in wg.Wait().
C2_Witness ==
    /\ pc = "wait"
    /\ wg = 1
    /\ \E t \in Mine : tasks[t].st = "hung"
    /\ \E t \in Mine : tasks[t].st = "done"

\* C3: when a cycle that took D = timediff is over and main is back at the top
\* of its loop, the clock is begin + P if D < P (the sleep was P - D) and
\* begin + D if D >= P (no sleep); the next cycle starts at that moment.
C3_Cadence ==
    /\ (pc = "loop" /\ cycle >= 1) =>
          /\ timediff < Minute => clock = begin + Minute
          /\ timediff < Minute => clock - (begin + timediff) = Minute - timediff
          /\ timediff >= Minute => clock = begin + timediff
    /\ pc = "collect" => begin = clock

\* C3 witness: a cycle of 20 s has been followed by a sleep of 40 s.
C3_Witness ==
    /\ pc = "loop"
    /\ cycle = 1
    /\ timediff = 20
    /\ clock = begin + Minute

\* C4: the clock never goes back (no negative sleep); every sleep ends at
\* begin + max(P, D); a cycle begins at the moment the sleep ended, is the next
\* in number (none skipped) and begins only when every task of the cycle
\* before it is done: start(n+1) = start(n) + max(P, D_n).
C4_NoDrift ==
    [][ /\ clock' >= clock
        /\ (pc = "sleep" /\ pc' = "loop") =>
              /\ clock' = begin + MaxOf(Minute, timediff)
              /\ clock' - clock = MaxOf(0, Minute - timediff)
        /\ cycle' # cycle =>
              /\ cycle' = cycle + 1
              /\ pc = "loop"
              /\ begin' = clock
              /\ cycle >= 1 => begin' = begin + MaxOf(Minute, timediff)
              /\ \A t \in 1..Len(tasks) : tasks[t].st = "done"
      ]_vars

\* C4 witness: the first cycle overran (90 s), so the second began at 90; it
\* took 20 s and was followed by a sleep of 40 s.
C4_Witness ==
    /\ pc = "loop"
    /\ cycle = 2
    /\ begin = 90
    /\ timediff = 20
    /\ clock = 150

\* The hostname of s is there and holds no "-" followed by six digits.
Malformed(s) ==
    /\ Len(s.Ingress) > 0
    /\ s.Ingress[1].Hostname # Nil
    /\ LET h == Deref(s.Ingress[1].Hostname)
       IN  \A p \in 1..Len(h) : ~DashDigitsAt(h, p)

\* The load balancer of s has no hostname yet.
NoHostname(s) ==
    \/ Len(s.Ingress) = 0
    \/ s.Ingress[1].Hostname = Nil

\* Every discovered service has a hostname of the expected pattern.
AllResolvable ==
    \A i \in 1..Len(services) : ~NoHostname(services[i]) /\ ~Malformed(services[i])

\* C5 (as claimed): in a cycle over services that all resolve, when the backend
\* call of one task fails, the other tasks of the cycle that have not exported
\* yet can still do so: the process keeps running.
C5_FailureIsolated ==
    AllResolvable =>
        \A t \in Mine : \A u \in Mine :
            (tasks[t].resp = "error" /\ u # t /\ tasks[u].st \notin {"written", "done"})
                => Running

\* C6: a failed backend call ends the process with log.Fatal: the task that
\* made the call never reaches its sink, and the cycle it belongs to stays the
\* last one.
C6_BackendErrorFatal ==
    \A t \in 1..Len(tasks) :
        tasks[t].resp = "error" =>
            /\ proc = "fatal"
            /\ exitCause = "GetMetricStatistics"
            /\ tasks[t].st = "failed"
            /\ tasks[t].cycle = cycle
            /\ pc \in {"spawn", "wait"}

\* C6 witness: the backend call of a task failed in the second cycle.
C6_Witness ==
    /\ cycle = 2
    /\ \E t \in Mine : tasks[t].resp = "error"
    /\ ~Running

\* C7 (as claimed): a service whose hostname does not match the pattern is
\* skipped: its tasks do not end the process.
C7_MalformedSkipped ==
    \A t \in 1..Len(tasks) : Malformed(tasks[t].s) => Running

\* C8 (as claimed): a discovered service without a hostname is no error: its
\* tasks do not end the process.
C8_PendingTolerated ==
    \A t \in 1..Len(tasks) : NoHostname(tasks[t].s) => Running

\* The orchestrator's answer k8s makes discovery fail.
DiscoveryFails(k8s) ==
    \/ k8s.clientErr
    \/ k8s.nsErr
    \/ \E i \in 1..Len(k8s.Namespaces) : k8s.Namespaces[i].listErr

\* C9: when loadClient, ListNamespaces or a ListServices fails, the process has
\* ended inside getAllServices: no task of the cycle was started and the
\* registry is as it was when the cycle began.
C9_DiscoveryFailureFatal ==
    (world # Nil /\ DiscoveryFails(Deref(world))) =>
        /\ proc \in {"fatal", "panic"}
        /\ exitCause \in {"loadClient", "ListNamespaces", "ListServices"}
        /\ pc = "collect"
        /\ spawned = 0
        /\ Mine = {}
        /\ registry = regBegin

\* C9 witness: ListServices failed for the second namespace in the second
\* cycle, after the first cycle had exported a series.
C9_Witness ==
    /\ cycle = 2
    /\ world # Nil
    /\ \E i \in 1..Len(Deref(world).Namespaces) : Deref(world).Namespaces[i].listErr
    /\ exitCause = "ListServices"
    /\ DOMAIN registry # {}

\* C10 (as claimed): a GET /metrics is never served the samples of only some
\* of the tasks of the cycle in flight (here: of a cycle over services that all
\* resolve, every task of which has been started).
C10_NoPartialScrape ==
    (ENABLED Scrape /\ AllResolvable /\ pc = "wait") => ~PartialResponse

\* The value the backend returned to task t: its sample, 0.0 without a datapoint.
SampleValue(t) == IF tasks[t].sample = Nil THEN 0 ELSE Deref(tasks[t].sample)

\* The series task t is to write: the vector of its catalog entry with the
\* labels (status,) elb_name, svc_name, namespace.
SeriesOfTask(t) ==
    <<tasks[t].m.vec,
      (IF tasks[t].m.status = "" THEN <<>> ELSE <<tasks[t].m.status>>)
          \o <<tasks[t].elbName, tasks[t].s.Name, tasks[t].s.Namespace>>>>

\* C11: when a cycle has completed, the counter of every task of a counter
\* entry, labelled with the entry's status (if any) and the service's ELB
\* name, name and namespace, is what it was when the cycle began plus the value
\* the backend returned to that task, whatever the order the tasks ran in; and
\* no series other than those of the cycle's tasks has changed.
C11_CounterAddsSample ==
    Returned =>
        /\ \A t \in Mine :
              tasks[t].m.op = "Add" =>
                  /\ SeriesOfTask(t) \in DOMAIN registry
                  /\ registry[SeriesOfTask(t)]
                        = Current(regBegin, SeriesOfTask(t)) + SampleValue(t)
        /\ \A k \in DOMAIN registry :
              (\A t \in Mine : SeriesOfTask(t) # k) =>
                  (k \in DOMAIN regBegin /\ registry[k] = regBegin[k])

\* C11 witness: the second cycle has completed; the backend returned Sum = 42
\* for HTTPCode_Backend_2XX of default/web in both cycles and 0 for 3XX now.
C11_Witness ==
    /\ pc = "sleep"
    /\ cycle = 2
    /\ Len(catalog) = 2
    /\ \E t \in Mine : /\ tasks[t].m.MetricName = "HTTPCode_Backend_2XX"
                       /\ tasks[t].sample = Ptr(42)
    /\ <<"httpRequestsTotal", <<"2XX", <<"a", "b">>, "web", "default">>>> \in DOMAIN registry
    /\ registry[<<"httpRequestsTotal", <<"2XX", <<"a", "b">>, "web", "default">>>>] = 84
    /\ <<"httpRequestsTotal", <<"3XX", <<"a", "b">>, "web", "default">>>> \in DOMAIN registry
    /\ registry[<<"httpRequestsTotal", <<"3XX", <<"a", "b">>, "web", "default">>>>] = 0

\* The series of the counter families.
CounterSeries(reg) == {k \in DOMAIN reg : VecKind(k[1]) = "counter"}

\* C12: no step of the program removes a counter series or lowers its value:
\* for every (family, label tuple) of a counter family the exported value
\* never decreases, within a cycle or from one cycle to the next.
C12_CountersMonotone ==
    [][\A k \in CounterSeries(registry) :
          /\ k \in CounterSeries(registry')
          /\ registry'[k] >= registry[k]]_vars

\* C12 witness: a counter that stood at 42 after the first cycle was written
\* again in the second cycle, with a backend value of 0, and still stands at 42.
C12_Witness ==
    /\ cycle = 2
    /\ \E t \in Mine :
          /\ tasks[t].m.op = "Add"
          /\ tasks[t].st = "done"
          /\ tasks[t].sample = Ptr(0)
          /\ SeriesOfTask(t) \in CounterSeries(regBegin)
          /\ regBegin[SeriesOfTask(t)] = 42
          /\ registry[SeriesOfTask(t)] = 42

\* C13: when a cycle has completed, the gauge of every task of a gauge entry
\* holds the value the backend returned to that task in this cycle, whatever
\* the gauge held before.
C13_GaugeHoldsSample ==
    Returned =>
        \A t \in Mine :
            tasks[t].m.op = "Set" =>
                /\ SeriesOfTask(t) \in DOMAIN registry
                /\ VecKind(tasks[t].m.vec) = "gauge"
                /\ registry[SeriesOfTask(t)] = SampleValue(t)

\* C13 witness: the second cycle has completed and a gauge that held 42 after
\* the first cycle holds the 42 fetched in the second, not 84.
C13_Witness ==
    /\ pc = "sleep"
    /\ cycle = 2
    /\ \E t \in Mine :
          /\ tasks[t].m.MetricName = "HealthyHostCount"
          /\ tasks[t].sample = Ptr(42)
          /\ SeriesOfTask(t) \in DOMAIN regBegin
          /\ regBegin[SeriesOfTask(t)] = 42
          /\ registry[SeriesOfTask(t)] = 42

\* The positions <<n, j>> of the services the orchestrator holds: service j of
\* namespace n.
Held(k8s) ==
    UNION {{<<n, j>> : j \in 1..Len(k8s.Namespaces[n].Items)} :
              n \in 1..Len(k8s.Namespaces)}

ItemAt(k8s, p) == k8s.Namespaces[p[1]].Items[p[2]]

\* C16: when discovery has succeeded, the list it returned holds every
\* LoadBalancer service of every namespace exactly once, and every service of
\* the list is a LoadBalancer service the orchestrator holds.
C16_ExactlyLoadBalancers ==
    (world # Nil /\ ~DiscoveryFails(Deref(world))) =>
        /\ \A p \in Held(Deref(world)) :
              ItemAt(Deref(world), p).Type = "LoadBalancer" =>
                  Cardinality({i \in 1..Len(services) :
                                  services[i] = ItemAt(Deref(world), p)}) = 1
        /\ \A i \in 1..Len(services) :
              /\ services[i].Type = "LoadBalancer"
              /\ \E p \in Held(Deref(world)) : services[i] = ItemAt(Deref(world), p)

\* C16 witness: two namespaces that hold a ClusterIP, a NodePort and two
\* LoadBalancer services were listed, and the two LoadBalancer services returned.
C16_Witness ==
    /\ world # Nil
    /\ ~DiscoveryFails(Deref(world))
    /\ Len(Deref(world).Namespaces) = 2
    /\ \E p \in Held(Deref(world)) : ItemAt(Deref(world), p).Type = "ClusterIP"
    /\ \E p \in Held(Deref(world)) : ItemAt(Deref(world), p).Type = "NodePort"
    /\ services = <<SvcWeb, SvcApi>>
    /\ pc = "wait"

\* C19: cycles do not overlap. Every task that exists belongs to the cycle in
\* flight, and when main is between two cycles (at the top of the loop, or
\* about to discover) no task is left that has not finished: every task of a
\* cycle has made its sink write and called Done before the next discovery.
C19_NoOverlap ==
    /\ \A t \in 1..Len(tasks) : tasks[t].cycle = cycle
    /\ (Running /\ pc \in {"sleep", "loop", "collect"}) =>
          \A t \in 1..Len(tasks) : tasks[t].st = "done"

\* C19 witness: the second cycle is about to discover; the two tasks of the
\* first cycle have written their series and are gone.
C19_Witness ==
    /\ Running
    /\ cycle = 2
    /\ pc = "collect"
    /\ tasks = <<>>
    /\ Cardinality(DOMAIN registry) = 2

\* The series the sink of task t writes.
Target(t) ==
    Series(tasks[t].m, tasks[t].elbName, tasks[t].s.Name, tasks[t].s.Namespace)

\* The tasks of the cycle that know their ELB name.
Named ==
    {t \in Mine : tasks[t].st \in {"resolved", "fetched", "labelled", "written", "done"}}

\* C20: the services of a cycle have pairwise different (namespace, name), no
\* two entries of the catalog the program starts with share family and status,
\* and so no two tasks of a cycle write the same series.
C20_DisjointSeries ==
    /\ \A i, j \in 1..Len(services) :
          i # j => <<services[i].Namespace, services[i].Name>>
                      # <<services[j].Namespace, services[j].Name>>
    /\ (pc = "loop" /\ cycle = 0) =>
          \A i, j \in 1..Len(metrics) :
              i # j => Series(metrics[i], <<>>, "", "") # Series(metrics[j], <<>>, "", "")
    /\ \A t, u \in Named : t # u => Target(t) # Target(u)

\* C20 witness: two tasks of one service, for two entries of the same family,
\* have both written: two series exist.
C20_Witness ==
    /\ cycle = 1
    /\ Len(services) = 1
    /\ \E t, u \in Named :
          /\ t # u
          /\ tasks[t].m.vec = tasks[u].m.vec
          /\ tasks[t].st = "done"
          /\ tasks[u].st = "done"
    /\ Cardinality(DOMAIN registry) = 2

\* A backend answer without datapoints.
NoDatapoints == [err |-> FALSE, hang |-> FALSE, Datapoints |-> <<>>]

\* C14: for each of the four statistic kinds getElbMetric returns a pointer to
\* 0.0, not the nil pointer and not a fatal error, when the backend answered
\* without datapoints; the task that got such an answer goes on with the value
\* 0.0 and its sink is called with 0.0: the series it writes is the zero series
\* with 0.0 applied.
C14_NoDataIsZero ==
    /\ \A stat \in Statistics :
          getElbMetric(NoDatapoints, stat) = [fatal |-> FALSE, value |-> Ptr(0)]
    /\ \A t \in 1..Len(tasks) :
          tasks[t].resp = "nodata" =>
              /\ Running
              /\ tasks[t].st \in {"fetched", "labelled", "written", "done"}
              /\ tasks[t].value = 0
              /\ tasks[t].st \in {"written", "done"} =>
                    /\ Target(t) \in DOMAIN registry
                    /\ registry[Target(t)]
                          = Apply(tasks[t].m.op, ZeroOf(tasks[t].m.vec), 0)

\* C14 witness: a task asking for a Maximum got an answer without datapoints
\* and has written 0 to its series.
C14_Witness ==
    \E t \in 1..Len(tasks) :
        /\ tasks[t].resp = "nodata"
        /\ tasks[t].m.Statistic = "Maximum"
        /\ tasks[t].st = "done"
        /\ registry[Target(t)] = 0

\* The hostname of the service of task t.
HostnameOf(t) == Deref(tasks[t].s.Ingress[1].Hostname)

\* C15: for a hostname of the expected pattern the resolver does not panic and
\* returns the identifier, in whatever way the hostname splits into the parts
\* of the pattern: "internal-" removed once, the numeric suffix and the domain
\* suffix dropped.
C15_BareIdentifier ==
    \A t \in 1..Len(tasks), h \in HostParts :
        (tasks[t].st # "spawned" /\ HostnameOf(t) = HostOf(h)) =>
            /\ exitCause # "FindStringSubmatch[1]"
            /\ tasks[t].elbName = h.id

\* C15 witness: the hostname of the comment of elbNameFromElbDNS was resolved
\* to a8280213c611d114o7340onc0d34252.
C15_Witness ==
    \E t \in 1..Len(tasks) :
        /\ tasks[t].st = "resolved"
        /\ HostnameOf(t) = InternalPrefix \o ExampleId \o <<"-">>
                              \o ExampleSuffix \o ExampleDomain
        /\ tasks[t].elbName = ExampleId

\* The positions of s at which a dash and six digits begin.
Groups(s) == {p \in 1..Len(s) : DashDigitsAt(s, p)}

\* The first of them.
FirstGroup(s) == CHOOSE p \in Groups(s) : \A q \in Groups(s) : p <= q

\* C17: for a hostname with at least one group of a dash and six digits the
\* resolver returns what stands before the first group, without a leading
\* "internal-", also when the hostname has more than one group.
C17_UpToFirstGroup ==
    \A t \in 1..Len(tasks) :
        (tasks[t].st # "spawned" /\ Groups(HostnameOf(t)) # {}) =>
            tasks[t].elbName
                = TrimPrefix(SubSeq(HostnameOf(t), 1, FirstGroup(HostnameOf(t)) - 1),
                             InternalPrefix)

\* Operation is not normal: discovery failed, a discovered service has no
\* resolvable hostname, or a backend call failed or does not return.
NotNormal ==
    \/ world # Nil /\ DiscoveryFails(Deref(world))
    \/ ~AllResolvable
    \/ \E t \in 1..Len(tasks) : tasks[t].resp \in {"error", "hang"}

\* C18: with every goroutine scheduled fairly and operation normal, the loop
\* goes on for as many cycles as the model lets it count: every one of the
\* MaxCycles cycles begins and completes, the last one leaving main back at the
\* top of its loop with the WaitGroup at zero and every task finished.
C18_CyclesGoOn ==
    <>(\/ NotNormal
       \/ /\ Running
          /\ cycle = MaxCycles
          /\ pc = "loop"
          /\ wg = 0
          /\ \A t \in 1..Len(tasks) : tasks[t].st = "done")

\* C18 witness: the second cycle, of two tasks, has completed in normal
\* operation and main is back at the top of its loop.
C18_Witness ==
    /\ Running
    /\ ~NotNormal
    /\ cycle = 2
    /\ pc = "loop"
    /\ wg = 0
    /\ Len(tasks) = 2
    /\ \A t \in 1..Len(tasks) : tasks[t].st = "done"

====
